---- MODULE Spec2Model ----
(***************************************************************************)
(* A model of the japanese-text library (src/src/lib.rs).                  *)
(*                                                                         *)
(* A char is its Unicode scalar value (an integer), a &str / String /      *)
(* Vec<char> is a sequence of chars.  Every public function of the library *)
(* is a loop over the chars of its input; a call is modelled as            *)
(*   Call (bind the input, cursor at 0, empty output)                      *)
(*   -> one step per loop iteration                                        *)
(*   -> Return (the caller receives the output).                           *)
(* The caller may feed the returned text to a further call.                *)
(***************************************************************************)
EXTENDS Integers, Sequences, FiniteSets, TLC

VARIABLES
    orig,     \* the text the caller started with
    text,     \* the text the caller holds now (the last returned String)
    calls,    \* names of the functions called so far, oldest first
    outs,     \* the texts those calls returned, oldest first
    pc,       \* "idle" | "scan" | "join"
    fn,       \* the function being executed / executed last
    chars,    \* the input of that call (input.chars())
    i,        \* number of input chars consumed by the loop (the cursor)
    result,   \* the String built by the loop
    tokens,   \* normalize_whitespace: the Vec<&str> of split_whitespace
    counts,   \* count_character_types: the CharacterTypes tally
    combos,   \* half_width_katakana_to_full_width: (base, mark) arms taken
    ch,       \* the char handed to the classification predicates
    cls       \* what the classification predicates returned for ch

vars == <<orig, text, calls, outs, pc, fn, chars, i, result, tokens, counts, combos, ch, cls>>

(***************************************************************************)
(* Bounds of the model.                                                    *)
(***************************************************************************)
MaxLen == 3      \* longest enumerated input text (chars)
MaxCalls == 3    \* longest chain of conversions applied to one text

(***************************************************************************)
(* Rust's char: a Unicode scalar value.                                    *)
(***************************************************************************)
IsScalar(n) == n \in 0..\h10FFFF /\ n \notin \hD800..\hDFFF

\* char::from_u32(n).unwrap_or(c)
from_u32_unwrap_or(n, c) == IF IsScalar(n) THEN n ELSE c

(***************************************************************************)
(* Width conversion.                                                       *)
(***************************************************************************)
\* to_half_width with the full-width range written with an exclusive upper bound
to_half_width_char_exclusive(c) ==
    IF c = \h3000 THEN \h0020
    ELSE IF c \in \hFF01..\hFF5D THEN from_u32_unwrap_or(c - \hFF01 + \h0021, c)
    ELSE c

\* the closure of to_half_width: match c { '　' => ' ', FF01..=FF5E => shift, _ => c }
to_half_width_char(c) ==
    IF c = \h3000 THEN \h0020
    ELSE IF c \in \hFF01..\hFF5E THEN from_u32_unwrap_or(c - \hFF01 + \h0021, c)
    ELSE c

\* to_full_width with the ASCII range running one char too far (DEL included)
to_full_width_char_wide(c) ==
    IF c = \h0020 THEN \h3000
    ELSE IF c \in \h0021..\h007F THEN from_u32_unwrap_or(c - \h0021 + \hFF01, c)
    ELSE c

\* the closure of to_full_width: match c { ' ' => '　', 0021..=007E => shift, _ => c }
to_full_width_char(c) ==
    IF c = \h0020 THEN \h3000
    ELSE IF c \in \h0021..\h007E THEN from_u32_unwrap_or(c - \h0021 + \hFF01, c)
    ELSE c

(***************************************************************************)
(* Script conversion.                                                      *)
(***************************************************************************)
\* the closure of to_hiragana
to_hiragana_char(c) ==
    IF c \in \h30A1..\h30F6 THEN from_u32_unwrap_or(c - \h30A1 + \h3041, c)
    ELSE c

\* to_katakana with the hiragana range written with an exclusive upper bound
to_katakana_char_exclusive(c) ==
    IF c \in \h3041..\h3095 THEN from_u32_unwrap_or(c - \h3041 + \h30A1, c)
    ELSE c

\* the closure of to_katakana
to_katakana_char(c) ==
    IF c \in \h3041..\h3096 THEN from_u32_unwrap_or(c - \h3041 + \h30A1, c)
    ELSE c

\* the closure of normalize_prolonged_sound: '〜' | '～' => 'ー'
normalize_prolonged_sound_char(c) ==
    IF c = \h301C \/ c = \hFF5E THEN \h30FC ELSE c

(***************************************************************************)
(* Classification predicates.                                              *)
(***************************************************************************)
is_hiragana(c) == c \in \h3041..\h3096

is_katakana(c) == c \in \h30A1..\h30F6

is_half_width_katakana(c) == c \in \hFF61..\hFF9F

is_kanji(c) == c \in \h4E00..\h9FFF

\* is_full_width testing the whole Halfwidth and Fullwidth Forms block
is_full_width_block(c) == c \in \hFF00..\hFFEF \/ c = \h3000

is_full_width(c) == c \in \hFF01..\hFF5E \/ c = \h3000

\* char::is_ascii
is_ascii(c) == c <= \h7F

\* char::is_whitespace: the Unicode White_Space property
is_whitespace(c) ==
    \/ c \in \h0009..\h000D
    \/ c \in {\h0020, \h0085, \h00A0, \h1680}
    \/ c \in \h2000..\h200A
    \/ c \in {\h2028, \h2029, \h202F, \h205F, \h3000}

(***************************************************************************)
(* Whitespace normalisation.                                               *)
(***************************************************************************)
\* the closure of normalize_whitespace
normalize_whitespace_char(c) ==
    IF is_whitespace(c) \/ c = \h3000 THEN \h0020 ELSE c

\* str::split_whitespace, collected: the non-empty pieces between whitespace
\* chars, left to right.  cur is the piece being read, acc the pieces read.
RECURSIVE SplitFrom(_, _, _, _)
SplitFrom(s, k, cur, acc) ==
    IF k > Len(s) THEN (IF cur = <<>> THEN acc ELSE Append(acc, cur))
    ELSE IF is_whitespace(s[k])
         THEN SplitFrom(s, k + 1, <<>>, IF cur = <<>> THEN acc ELSE Append(acc, cur))
         ELSE SplitFrom(s, k + 1, Append(cur, s[k]), acc)

\* str::split(' ') in place of split_whitespace: empty pieces are kept
RECURSIVE SplitKeepFrom(_, _, _, _)
SplitKeepFrom(s, k, cur, acc) ==
    IF k > Len(s) THEN Append(acc, cur)
    ELSE IF s[k] = \h0020
         THEN SplitKeepFrom(s, k + 1, <<>>, Append(acc, cur))
         ELSE SplitKeepFrom(s, k + 1, Append(cur, s[k]), acc)

split_keep_empty(s) == SplitKeepFrom(s, 1, <<>>, <<>>)

split_whitespace(s) == SplitFrom(s, 1, <<>>, <<>>)

\* [&str]::join(sep)
RECURSIVE join(_, _)
join(v, sep) ==
    IF v = <<>> THEN <<>>
    ELSE IF Len(v) = 1 THEN v[1]
    ELSE v[1] \o sep \o join(Tail(v), sep)

(***************************************************************************)
(* Half-width katakana -> full-width katakana.                             *)
(***************************************************************************)
\* the (c, Some(mark)) arms: <<base, mark, precomposed glyph>>
HwkVoicedArms ==
    { <<\hFF76, \hFF9E, \h30AC>>, <<\hFF77, \hFF9E, \h30AE>>, <<\hFF78, \hFF9E, \h30B0>>,
      <<\hFF79, \hFF9E, \h30B2>>, <<\hFF7A, \hFF9E, \h30B4>>, <<\hFF7B, \hFF9E, \h30B6>>,
      <<\hFF7C, \hFF9E, \h30B8>>, <<\hFF7D, \hFF9E, \h30BA>>, <<\hFF7E, \hFF9E, \h30BC>>,
      <<\hFF7F, \hFF9E, \h30BE>>, <<\hFF80, \hFF9E, \h30C0>>, <<\hFF81, \hFF9E, \h30C2>>,
      <<\hFF82, \hFF9E, \h30C5>>, <<\hFF83, \hFF9E, \h30C7>>, <<\hFF84, \hFF9E, \h30C9>>,
      <<\hFF8A, \hFF9E, \h30D0>>, <<\hFF8B, \hFF9E, \h30D3>>, <<\hFF8C, \hFF9E, \h30D6>>,
      <<\hFF8D, \hFF9E, \h30D9>>, <<\hFF8E, \hFF9E, \h30DC>>, <<\hFF73, \hFF9E, \h30F4>>,
      <<\hFF8A, \hFF9F, \h30D1>>, <<\hFF8B, \hFF9F, \h30D4>>, <<\hFF8C, \hFF9F, \h30D7>>,
      <<\hFF8D, \hFF9F, \h30DA>>, <<\hFF8E, \hFF9F, \h30DD>> }

\* the inner match of the fallback arm: <<half-width, full-width>>
HwkPlainArms ==
    { <<\hFF66, \h30F2>>, <<\hFF67, \h30A1>>, <<\hFF68, \h30A3>>, <<\hFF69, \h30A5>>, <<\hFF6A, \h30A7>>,
      <<\hFF6B, \h30A9>>, <<\hFF6C, \h30E3>>, <<\hFF6D, \h30E5>>, <<\hFF6E, \h30E7>>, <<\hFF6F, \h30C3>>,
      <<\hFF70, \h30FC>>, <<\hFF71, \h30A2>>, <<\hFF72, \h30A4>>, <<\hFF73, \h30A6>>, <<\hFF74, \h30A8>>,
      <<\hFF75, \h30AA>>, <<\hFF76, \h30AB>>, <<\hFF77, \h30AD>>, <<\hFF78, \h30AF>>, <<\hFF79, \h30B1>>,
      <<\hFF7A, \h30B3>>, <<\hFF7B, \h30B5>>, <<\hFF7C, \h30B7>>, <<\hFF7D, \h30B9>>, <<\hFF7E, \h30BB>>,
      <<\hFF7F, \h30BD>>, <<\hFF80, \h30BF>>, <<\hFF81, \h30C1>>, <<\hFF82, \h30C4>>, <<\hFF83, \h30C6>>,
      <<\hFF84, \h30C8>>, <<\hFF85, \h30CA>>, <<\hFF86, \h30CB>>, <<\hFF87, \h30CC>>, <<\hFF88, \h30CD>>,
      <<\hFF89, \h30CE>>, <<\hFF8A, \h30CF>>, <<\hFF8B, \h30D2>>, <<\hFF8C, \h30D5>>, <<\hFF8D, \h30D8>>,
      <<\hFF8E, \h30DB>>, <<\hFF8F, \h30DE>>, <<\hFF90, \h30DF>>, <<\hFF91, \h30E0>>, <<\hFF92, \h30E1>>,
      <<\hFF93, \h30E2>>, <<\hFF94, \h30E4>>, <<\hFF95, \h30E6>>, <<\hFF96, \h30E8>>, <<\hFF97, \h30E9>>,
      <<\hFF98, \h30EA>>, <<\hFF99, \h30EB>>, <<\hFF9A, \h30EC>>, <<\hFF9B, \h30ED>>, <<\hFF9C, \h30EF>>,
      <<\hFF9D, \h30F3>>, <<\hFF61, \h3002>>, <<\hFF62, \h300C>>, <<\hFF63, \h300D>>, <<\hFF64, \h3001>>,
      <<\hFF65, \h30FB>> }

\* the fallback table without its last line (the punctuation ｡ ｢ ｣ ､ ･)
hwk_full_no_punctuation(c) ==
    IF c \in \hFF66..\hFF9D /\ \E a \in HwkPlainArms : a[1] = c
    THEN (CHOOSE a \in HwkPlainArms : a[1] = c)[2]
    ELSE c

\* let full = match c { ... , _ => c }
hwk_full(c) ==
    IF \E a \in HwkPlainArms : a[1] = c
    THEN (CHOOSE a \in HwkPlainArms : a[1] = c)[2]
    ELSE c

\* match (c, next) with the combining arms advancing by one (`i += 1`)
hwk_match_no_skip(c, has_next, n) ==
    IF has_next /\ \E a \in HwkVoicedArms : a[1] = c /\ a[2] = n
    THEN [push |-> (CHOOSE a \in HwkVoicedArms : a[1] = c /\ a[2] = n)[3], adv |-> 1]
    ELSE [push |-> hwk_full(c), adv |-> 1]

\* match (c, next): what one iteration pushes and how far it moves the cursor.
\* has_next is `i + 1 < chars.len()`; n is chars[i + 1] and is read only then.
hwk_match(c, has_next, n) ==
    IF has_next /\ \E a \in HwkVoicedArms : a[1] = c /\ a[2] = n
    THEN [push |-> (CHOOSE a \in HwkVoicedArms : a[1] = c /\ a[2] = n)[3], adv |-> 2]
    ELSE [push |-> hwk_full(c), adv |-> 1]

(***************************************************************************)
(* Iteration marks.                                                        *)
(***************************************************************************)
\* add_dakuten's arms: <<base, voiced>>
DakutenArms ==
    { <<\h304B, \h304C>>, <<\h304D, \h304E>>, <<\h304F, \h3050>>, <<\h3051, \h3052>>, <<\h3053, \h3054>>,
      <<\h3055, \h3056>>, <<\h3057, \h3058>>, <<\h3059, \h305A>>, <<\h305B, \h305C>>, <<\h305D, \h305E>>,
      <<\h305F, \h3060>>, <<\h3061, \h3062>>, <<\h3064, \h3065>>, <<\h3066, \h3067>>, <<\h3068, \h3069>>,
      <<\h306F, \h3070>>, <<\h3072, \h3073>>, <<\h3075, \h3076>>, <<\h3078, \h3079>>, <<\h307B, \h307C>>,
      <<\h30AB, \h30AC>>, <<\h30AD, \h30AE>>, <<\h30AF, \h30B0>>, <<\h30B1, \h30B2>>, <<\h30B3, \h30B4>>,
      <<\h30B5, \h30B6>>, <<\h30B7, \h30B8>>, <<\h30B9, \h30BA>>, <<\h30BB, \h30BC>>, <<\h30BD, \h30BE>>,
      <<\h30BF, \h30C0>>, <<\h30C1, \h30C2>>, <<\h30C4, \h30C5>>, <<\h30C6, \h30C7>>, <<\h30C8, \h30C9>>,
      <<\h30CF, \h30D0>>, <<\h30D2, \h30D3>>, <<\h30D5, \h30D6>>, <<\h30D8, \h30D9>>, <<\h30DB, \h30DC>> }

\* add_dakuten by arithmetic over the か..ほ / カ..ホ stretch instead of a table
add_dakuten_shift(c) ==
    IF c \in \h304B..\h307B \/ c \in \h30AB..\h30DB THEN c + 1 ELSE c

add_dakuten(c) ==
    IF \E a \in DakutenArms : a[1] = c
    THEN (CHOOSE a \in DakutenArms : a[1] = c)[2]
    ELSE c

\* the loop body looking behind at what the preceding position expanded to,
\* not at the raw preceding char
RECURSIVE iteration_push_expanded(_, _)
iteration_push_expanded(cs, k) ==
    LET c == cs[k + 1] IN
    IF c = \h309D \/ c = \h30FD
    THEN (IF k > 0 THEN iteration_push_expanded(cs, k - 1) ELSE c)
    ELSE IF c = \h309E \/ c = \h30FE
    THEN (IF k > 0 THEN add_dakuten(iteration_push_expanded(cs, k - 1)) ELSE c)
    ELSE c

\* the body of the for loop of expand_iteration_marks: the char pushed for
\* position k (0-based) of cs
iteration_push(cs, k) ==
    LET c == cs[k + 1] IN
    IF c = \h309D \/ c = \h30FD
    THEN (IF k > 0 THEN cs[k] ELSE c)
    ELSE IF c = \h309E \/ c = \h30FE
    THEN (IF k > 0 THEN add_dakuten(cs[k]) ELSE c)
    ELSE c

(***************************************************************************)
(* Counting.                                                               *)
(***************************************************************************)
ZeroCounts ==
    [hiragana |-> 0, katakana |-> 0, half_width_katakana |-> 0, kanji |-> 0,
     ascii |-> 0, full_width |-> 0, other |-> 0]

\* the else-if chain with the is_full_width branch left out
count_bucket_no_full_width(c) ==
    IF is_hiragana(c) THEN "hiragana"
    ELSE IF is_katakana(c) THEN "katakana"
    ELSE IF is_half_width_katakana(c) THEN "half_width_katakana"
    ELSE IF is_kanji(c) THEN "kanji"
    ELSE IF is_ascii(c) THEN "ascii"
    ELSE "other"

\* the if / else-if chain of count_character_types: the field incremented for c
count_bucket(c) ==
    IF is_hiragana(c) THEN "hiragana"
    ELSE IF is_katakana(c) THEN "katakana"
    ELSE IF is_half_width_katakana(c) THEN "half_width_katakana"
    ELSE IF is_kanji(c) THEN "kanji"
    ELSE IF is_ascii(c) THEN "ascii"
    ELSE IF is_full_width(c) THEN "full_width"
    ELSE "other"

(***************************************************************************)
(* Input texts.                                                            *)
(***************************************************************************)
\* all texts of at most n chars over the alphabet A
SeqsUpTo(A, n) == UNION { [1..k -> A] : k \in 0..n }

\* chars around every range boundary the library names, whole blocks where a
\* table or a shift acts per char, and far-away scalars
SampleChars ==
    (\h0000..\h00FF) \cup {\h1680} \cup (\h2000..\h202F) \cup {\h205F, \h2060}
    \cup (\h3000..\h30FF)
    \cup {\h4DFF, \h4E00, \h4E01, \h5B57, \h6F22, \h9FFE, \h9FFF, \hA000}
    \cup {\hD7FF, \hE000}
    \cup (\hFF00..\hFFA0) \cup {\hFFFD, \hFFFF}
    \cup {\h10000, \h1F600, \h10FFFF}

\* the input literals of the tests at lines 545, 553, 610, 620-622, 627-630, 642-645
TestTexts ==
    { <<\h41, \h42, \h43, \h31, \h32, \h33, \h21, \h40, \h23>>,
      <<\h3053, \h3093, \h306B, \h3061, \h306F>>,
      <<\h3042, \h30A2, \h6F22, \h41, \h42, \h43, \h31, \h32, \h33, \hFF71, \hFF72, \hFF73>>,
      <<\h48, \h65, \h6C, \h6C, \h6F, \h3000, \h57, \h6F, \h72, \h6C, \h64>>,
      <<\h41, \h09, \h09, \h09, \h42>>,
      <<\h20, \h20, \h4D, \h75, \h6C, \h74, \h69, \h70, \h6C, \h65, \h20, \h20, \h20, \h53, \h70,
        \h61, \h63, \h65, \h73, \h20, \h20>>,
      <<\hFF76, \hFF80, \hFF76, \hFF85>>,
      <<\hFF76, \hFF9E, \hFF77, \hFF9E, \hFF78, \hFF9E, \hFF79, \hFF9E, \hFF7A, \hFF9E>>,
      <<\hFF8A, \hFF9F, \hFF8B, \hFF9F, \hFF8C, \hFF9F, \hFF8D, \hFF9F, \hFF8E, \hFF9F>>,
      <<\hFF7A, \hFF9D, \hFF86, \hFF81, \hFF8A>>,
      <<\h3044, \h308D, \h309D>>,
      <<\h304B, \h309E>>,
      <<\h30C8, \h30FD, \h30AD>>,
      <<\h30AB, \h30FE>> }

SingleChars == { <<c>> : c \in SampleChars }

\* ｶ ﾊ ｳ ｱ, the two voicing marks, and a char outside the block
HwkAlphabet == {\hFF76, \hFF8A, \hFF73, \hFF71, \hFF9E, \hFF9F, \h41}

\* every char of the half-width block followed by either voicing mark
HwkPairs == { <<c, m>> : c \in \hFF61..\hFF9F, m \in {\hFF9E, \hFF9F} }

\* か が あ カ and the four iteration marks
IterAlphabet == {\h304B, \h304C, \h3042, \h30AB, \h309D, \h309E, \h30FD, \h30FE}

\* every kana-block char followed by each iteration mark
IterPairs == { <<c, m>> : c \in \h3040..\h30FF, m \in {\h309D, \h309E, \h30FD, \h30FE} }

\* space, tab, full-width space, two letters, and ZERO WIDTH SPACE (not White_Space)
WsAlphabet == {\h20, \h09, \h3000, \h61, \h62, \h200B}

\* one or two chars of every bucket of the tally
CountAlphabet == {\h3042, \h30A2, \hFF71, \h6F22, \h41, \hFF21, \h3000, \h3002}

Texts ==
    SingleChars \cup TestTexts \cup HwkPairs \cup IterPairs
    \cup SeqsUpTo(HwkAlphabet, MaxLen) \cup SeqsUpTo(IterAlphabet, MaxLen)
    \cup SeqsUpTo(WsAlphabet, MaxLen) \cup SeqsUpTo(CountAlphabet, MaxLen)

(***************************************************************************)
(* The functions of the library.                                           *)
(***************************************************************************)
ConvFns == {"to_half_width", "to_full_width", "to_hiragana", "to_katakana"}

\* the functions that are a plain `.chars().map(closure).collect()`
MapFns == ConvFns \cup {"normalize_prolonged_sound"}

Transformations ==
    MapFns \cup {"normalize_whitespace", "half_width_katakana_to_full_width",
                 "expand_iteration_marks"}

AllFns == Transformations \cup {"count_character_types"}

NoCls == [is_hiragana |-> FALSE, is_katakana |-> FALSE, is_half_width_katakana |-> FALSE,
          is_kanji |-> FALSE, is_full_width |-> FALSE, tested |-> FALSE]

(***************************************************************************)
(* The state after construction: the caller holds a text, nothing called.  *)
(***************************************************************************)
Start(t) ==
    /\ orig = t
    /\ text = t
    /\ calls = <<>>
    /\ outs = <<>>
    /\ pc = "idle"
    /\ fn = "none"
    /\ chars = <<>>
    /\ i = 0
    /\ result = <<>>
    /\ tokens = <<>>
    /\ counts = ZeroCounts
    /\ combos = 0
    /\ cls = NoCls

(***************************************************************************)
(* Calling a function: `let chars = input.chars()`, empty output, i = 0.   *)
(* limit is the number of calls the caller chains.                         *)
(***************************************************************************)
Call(f, limit) ==
    /\ pc = "idle"
    /\ Len(calls) < limit
    /\ calls' = Append(calls, f)
    /\ fn' = f
    /\ chars' = text
    /\ i' = 0
    /\ result' = <<>>
    /\ tokens' = <<>>
    /\ counts' = ZeroCounts
    /\ combos' = 0
    /\ pc' = "scan"
    /\ UNCHANGED <<orig, outs, text, ch, cls>>

\* one iteration of `.chars().map(|c| ...)` of to_half_width
to_half_width_step ==
    /\ pc = "scan"
    /\ fn = "to_half_width"
    /\ i < Len(chars)
    /\ result' = Append(result, to_half_width_char(chars[i + 1]))
    /\ i' = i + 1
    /\ UNCHANGED <<orig, outs, text, calls, pc, fn, chars, tokens, counts, combos, ch, cls>>

\* one iteration of `.chars().map(|c| ...)` of to_full_width
to_full_width_step ==
    /\ pc = "scan"
    /\ fn = "to_full_width"
    /\ i < Len(chars)
    /\ result' = Append(result, to_full_width_char(chars[i + 1]))
    /\ i' = i + 1
    /\ UNCHANGED <<orig, outs, text, calls, pc, fn, chars, tokens, counts, combos, ch, cls>>

\* one iteration of `.chars().map(|c| ...)` of to_hiragana
to_hiragana_step ==
    /\ pc = "scan"
    /\ fn = "to_hiragana"
    /\ i < Len(chars)
    /\ result' = Append(result, to_hiragana_char(chars[i + 1]))
    /\ i' = i + 1
    /\ UNCHANGED <<orig, outs, text, calls, pc, fn, chars, tokens, counts, combos, ch, cls>>

\* one iteration of `.chars().map(|c| ...)` of to_katakana
to_katakana_step ==
    /\ pc = "scan"
    /\ fn = "to_katakana"
    /\ i < Len(chars)
    /\ result' = Append(result, to_katakana_char(chars[i + 1]))
    /\ i' = i + 1
    /\ UNCHANGED <<orig, outs, text, calls, pc, fn, chars, tokens, counts, combos, ch, cls>>

\* one iteration of `.chars().map(|c| ...)` of normalize_prolonged_sound
normalize_prolonged_sound_step ==
    /\ pc = "scan"
    /\ fn = "normalize_prolonged_sound"
    /\ i < Len(chars)
    /\ result' = Append(result, normalize_prolonged_sound_char(chars[i + 1]))
    /\ i' = i + 1
    /\ UNCHANGED <<orig, outs, text, calls, pc, fn, chars, tokens, counts, combos, ch, cls>>

\* one iteration of `.chars().map(|c| ...)` of normalize_whitespace
normalize_whitespace_step ==
    /\ pc = "scan"
    /\ fn = "normalize_whitespace"
    /\ i < Len(chars)
    /\ result' = Append(result, normalize_whitespace_char(chars[i + 1]))
    /\ i' = i + 1
    /\ UNCHANGED <<orig, outs, text, calls, pc, fn, chars, tokens, counts, combos, ch, cls>>

\* one iteration of `while i < chars.len()` of half_width_katakana_to_full_width
half_width_katakana_to_full_width_step ==
    /\ pc = "scan"
    /\ fn = "half_width_katakana_to_full_width"
    /\ i < Len(chars)
    /\ LET has_next == i + 1 < Len(chars)
           m == hwk_match(chars[i + 1], has_next, IF has_next THEN chars[i + 2] ELSE 0)
       IN  /\ result' = Append(result, m.push)
           /\ i' = i + m.adv
           /\ combos' = IF m.adv = 2 THEN combos + 1 ELSE combos
    /\ UNCHANGED <<orig, outs, text, calls, pc, fn, chars, tokens, counts, ch, cls>>

\* the loop body pushing the repeated char and then the mark as well
expand_iteration_marks_step_keep_mark ==
    /\ pc = "scan"
    /\ fn = "expand_iteration_marks"
    /\ i < Len(chars)
    /\ result' = IF iteration_push(chars, i) # chars[i + 1]
                 THEN Append(Append(result, iteration_push(chars, i)), chars[i + 1])
                 ELSE Append(result, chars[i + 1])
    /\ i' = i + 1
    /\ UNCHANGED <<orig, outs, text, calls, pc, fn, chars, tokens, counts, combos, ch, cls>>

\* one iteration of `for (i, &c) in chars.iter().enumerate()` of expand_iteration_marks
expand_iteration_marks_step ==
    /\ pc = "scan"
    /\ fn = "expand_iteration_marks"
    /\ i < Len(chars)
    /\ result' = Append(result, iteration_push(chars, i))
    /\ i' = i + 1
    /\ UNCHANGED <<orig, outs, text, calls, pc, fn, chars, tokens, counts, combos, ch, cls>>

\* count_character_types with the first test a plain `if`, not the head of the
\* else-if chain: a hiragana char is counted and then classified again
count_character_types_step_no_else ==
    /\ pc = "scan"
    /\ fn = "count_character_types"
    /\ i < Len(chars)
    /\ LET c == chars[i + 1]
           first == IF is_hiragana(c) THEN [counts EXCEPT !.hiragana = @ + 1] ELSE counts
           rest == IF is_katakana(c) THEN "katakana"
                   ELSE IF is_half_width_katakana(c) THEN "half_width_katakana"
                   ELSE IF is_kanji(c) THEN "kanji"
                   ELSE IF is_ascii(c) THEN "ascii"
                   ELSE IF is_full_width(c) THEN "full_width"
                   ELSE "other"
       IN  counts' = [first EXCEPT ![rest] = @ + 1]
    /\ i' = i + 1
    /\ UNCHANGED <<orig, outs, text, calls, pc, fn, chars, result, tokens, combos, ch, cls>>

\* one iteration of `for c in input.chars()` of count_character_types
count_character_types_step ==
    /\ pc = "scan"
    /\ fn = "count_character_types"
    /\ i < Len(chars)
    /\ counts' = [counts EXCEPT ![count_bucket(chars[i + 1])] = @ + 1]
    /\ i' = i + 1
    /\ UNCHANGED <<orig, outs, text, calls, pc, fn, chars, result, tokens, combos, ch, cls>>

\* normalize_whitespace after the map: `.collect::<String>().split_whitespace().collect()`
normalize_whitespace_split ==
    /\ pc = "scan"
    /\ fn = "normalize_whitespace"
    /\ i >= Len(chars)
    /\ tokens' = split_whitespace(result)
    /\ pc' = "join"
    /\ UNCHANGED <<orig, outs, text, calls, fn, chars, i, result, counts, combos, ch, cls>>

\* normalize_whitespace: `.join(" ")` is the value returned
normalize_whitespace_join ==
    /\ pc = "join"
    /\ text' = join(tokens, <<\h20>>)
    /\ outs' = Append(outs, text')
    /\ pc' = "idle"
    /\ UNCHANGED <<orig, calls, fn, chars, i, result, tokens, counts, combos, ch, cls>>

\* the loop is over and the String built is returned
Return ==
    /\ pc = "scan"
    /\ fn \in Transformations \ {"normalize_whitespace"}
    /\ i >= Len(chars)
    /\ text' = result
    /\ outs' = Append(outs, text')
    /\ pc' = "idle"
    /\ UNCHANGED <<orig, calls, fn, chars, i, result, tokens, counts, combos, ch, cls>>

\* count_character_types returns the tally; the caller's text is untouched
ReturnCounts ==
    /\ pc = "scan"
    /\ fn = "count_character_types"
    /\ i >= Len(chars)
    /\ pc' = "idle"
    /\ UNCHANGED <<orig, outs, text, calls, fn, chars, i, result, tokens, counts, combos, ch, cls>>

\* the five public predicates applied to one char
Classify ==
    /\ ~cls.tested
    /\ cls' = [is_hiragana |-> is_hiragana(ch), is_katakana |-> is_katakana(ch),
               is_half_width_katakana |-> is_half_width_katakana(ch),
               is_kanji |-> is_kanji(ch), is_full_width |-> is_full_width(ch),
               tested |-> TRUE]
    /\ UNCHANGED <<orig, outs, text, calls, pc, fn, chars, i, result, tokens, counts, combos, ch>>

(***************************************************************************)
(* Spec: one call of any function on any of the input texts.               *)
(***************************************************************************)
Init == ch = 0 /\ \E t \in Texts : Start(t)

Next ==
    \/ \E f \in AllFns : Call(f, 1)
    \/ to_half_width_step
    \/ to_full_width_step
    \/ to_hiragana_step
    \/ to_katakana_step
    \/ normalize_prolonged_sound_step
    \/ normalize_whitespace_step
    \/ normalize_whitespace_split
    \/ normalize_whitespace_join
    \/ half_width_katakana_to_full_width_step
    \/ expand_iteration_marks_step
    \/ count_character_types_step
    \/ Return
    \/ ReturnCounts

Spec == Init /\ [][Next]_vars

(***************************************************************************)
(* SpecConv: chains of up to MaxCalls width / script conversions.          *)
(***************************************************************************)
InitConv == ch = 0 /\ \E t \in SingleChars \cup TestTexts : Start(t)

NextConv ==
    \/ \E f \in ConvFns : Call(f, MaxCalls)
    \/ to_half_width_step
    \/ to_full_width_step
    \/ to_hiragana_step
    \/ to_katakana_step
    \/ Return

SpecConv == InitConv /\ [][NextConv]_vars

(***************************************************************************)
(* SpecWs: normalize_whitespace applied again to its own output.           *)
(***************************************************************************)
InitWs ==
    ch = 0 /\ \E t \in SeqsUpTo(WsAlphabet, MaxLen) \cup SingleChars \cup TestTexts : Start(t)

NextWs ==
    \/ Call("normalize_whitespace", MaxCalls)
    \/ normalize_whitespace_step
    \/ normalize_whitespace_split
    \/ normalize_whitespace_join

SpecWs == InitWs /\ [][NextWs]_vars

(***************************************************************************)
(* SpecClassify: the predicates on every Unicode scalar value.             *)
(***************************************************************************)
InitClassify ==
    /\ Start(<<>>)
    /\ \/ ch \in \h0000..\hD7FF
       \/ ch \in \hE000..\hFFFF
       \/ \E plane \in 1..16 : ch \in (plane * 65536)..(plane * 65536 + 65535)

SpecClassify == InitClassify /\ [][Classify]_vars

(***************************************************************************)
(* Properties.                                                             *)
(***************************************************************************)
\* every char of s lies in the set S
AllIn(s, S) == \A k \in 1..Len(s) : s[k] \in S

\* the caller has called exactly the functions cs, in this order, and the last has returned
Returned(cs) == pc = "idle" /\ calls = cs

PrintableAscii == (\h0021..\h007E) \cup {\h0020}

FullWidthAscii == (\hFF01..\hFF5E) \cup {\h3000}

\* C1: a text of printable ASCII chars (U+0021..U+007E, or the space U+0020)
\* converted by to_full_width and then by to_half_width is the original text,
\* and a text of full-width chars (U+FF01..U+FF5E, or the space U+3000)
\* converted by to_half_width and then by to_full_width is the original text.
C1_WidthRoundTrip ==
    /\ (Returned(<<"to_full_width", "to_half_width">>) /\ AllIn(orig, PrintableAscii))
           => text = orig
    /\ (Returned(<<"to_half_width", "to_full_width">>) /\ AllIn(orig, FullWidthAscii))
           => text = orig

\* the last printable ASCII char went to its full-width form and came back
C1_Witness ==
    /\ Returned(<<"to_full_width", "to_half_width">>)
    /\ orig = <<\h007E>>
    /\ outs = <<<<\hFF5E>>, <<\h007E>>>>

\* C2 as claimed: a char the first conversion does not map is passed through by
\* it, and converting back reproduces the char.
C2_UnmappedRoundTripAsClaimed ==
    /\ (pc = "idle" /\ Len(calls) >= 1 /\ calls[1] = "to_full_width"
            /\ Len(orig) = 1 /\ orig[1] \notin PrintableAscii)
           => /\ outs[1] = orig
              /\ calls = <<"to_full_width", "to_half_width">> => text = orig
    /\ (pc = "idle" /\ Len(calls) >= 1 /\ calls[1] = "to_half_width"
            /\ Len(orig) = 1 /\ orig[1] \notin FullWidthAscii)
           => /\ outs[1] = orig
              /\ calls = <<"to_half_width", "to_full_width">> => text = orig

\* C2 (amended): a char the first conversion does not map is passed through by
\* it unchanged; converting back reproduces the char exactly when the second
\* conversion does not map it either, that is for chars outside U+0020..U+007E,
\* outside U+FF01..U+FF5E and other than U+3000.
C2_UnmappedRoundTrip ==
    /\ (pc = "idle" /\ Len(calls) >= 1 /\ calls[1] = "to_full_width"
            /\ Len(orig) = 1 /\ orig[1] \notin PrintableAscii)
           => /\ outs[1] = orig
              /\ calls = <<"to_full_width", "to_half_width">>
                     => (text = orig <=> orig[1] \notin FullWidthAscii)
    /\ (pc = "idle" /\ Len(calls) >= 1 /\ calls[1] = "to_half_width"
            /\ Len(orig) = 1 /\ orig[1] \notin FullWidthAscii)
           => /\ outs[1] = orig
              /\ calls = <<"to_half_width", "to_full_width">>
                     => (text = orig <=> orig[1] \notin PrintableAscii)

\* a kana char, mapped by neither conversion, went through both unchanged
C2_Witness ==
    /\ Returned(<<"to_full_width", "to_half_width">>)
    /\ orig = <<\h3042>>
    /\ outs = <<<<\h3042>>, <<\h3042>>>>

Katakana == \h30A1..\h30F6

Hiragana == \h3041..\h3096

\* C3: a text of katakana chars (U+30A1..U+30F6) converted by to_hiragana and
\* then by to_katakana is the original text, and a further to_hiragana returns
\* what the first to_hiragana returned; a text of hiragana chars
\* (U+3041..U+3096) converted by to_katakana and then by to_hiragana is the
\* original text.
C3_KanaRoundTrip ==
    /\ (Returned(<<"to_hiragana", "to_katakana">>) /\ AllIn(orig, Katakana))
           => text = orig
    /\ (Returned(<<"to_hiragana", "to_katakana", "to_hiragana">>) /\ AllIn(orig, Katakana))
           => outs[3] = outs[1]
    /\ (Returned(<<"to_katakana", "to_hiragana">>) /\ AllIn(orig, Hiragana))
           => text = orig

\* the last katakana of the range went to hiragana, back, and to hiragana again
C3_Witness ==
    /\ Returned(<<"to_hiragana", "to_katakana", "to_hiragana">>)
    /\ orig = <<\h30F6>>
    /\ outs = <<<<\h3096>>, <<\h30F6>>, <<\h3096>>>>

Buckets ==
    {"hiragana", "katakana", "half_width_katakana", "kanji", "ascii", "full_width", "other"}

TallySum(t) ==
    t.hiragana + t.katakana + t.half_width_katakana + t.kanji + t.ascii
        + t.full_width + t.other

\* C4: throughout count_character_types the seven buckets sum to the number of
\* chars scanned so far, so the tally returned sums to the number of chars of
\* the input; and every iteration of the scan adds exactly one to exactly one
\* bucket and leaves the other six as they were.
C4_TallySum ==
    /\ [](fn = "count_character_types"
              => /\ TallySum(counts) = i
                 /\ pc = "idle" => TallySum(counts) = Len(chars))
    /\ [][(fn = "count_character_types" /\ pc = "scan" /\ pc' = "scan")
              => /\ i' = i + 1
                 /\ \E b \in Buckets :
                        /\ counts'[b] = counts[b] + 1
                        /\ \A o \in Buckets \ {b} : counts'[o] = counts[o]]_vars

\* the tally of the text of the test at line 610 has been returned
C4_Witness ==
    /\ pc = "idle"
    /\ fn = "count_character_types"
    /\ Len(chars) = 12
    /\ counts = [hiragana |-> 1, katakana |-> 1, half_width_katakana |-> 3, kanji |-> 1,
                 ascii |-> 6, full_width |-> 0, other |-> 0]

Predicates ==
    {"is_hiragana", "is_katakana", "is_half_width_katakana", "is_kanji", "is_full_width"}

\* C5: for every char, at most one of is_hiragana, is_katakana,
\* is_half_width_katakana, is_kanji, is_full_width returns true.
C5_PredicatesExclusive ==
    cls.tested => Cardinality({p \in Predicates : cls[p]}) <= 1

\* the full-width space was tested: is_full_width alone returned true
C5_Witness ==
    /\ cls.tested
    /\ ch = \h3000
    /\ {p \in Predicates : cls[p]} = {"is_full_width"}

\* the text s loses chars to normalize_whitespace: it starts or ends with a
\* whitespace char, or two whitespace chars are adjacent
DropsWhitespace(s) ==
    /\ s # <<>>
    /\ \/ is_whitespace(s[1])
       \/ is_whitespace(s[Len(s)])
       \/ \E k \in 1..(Len(s) - 1) : is_whitespace(s[k]) /\ is_whitespace(s[k + 1])

\* C6 as claimed: every transformation returns a text no longer than its input,
\* and a strictly shorter one only when half_width_katakana_to_full_width has
\* combined a base with a voicing mark.
C6_LengthAsClaimed ==
    (pc = "idle" /\ fn \in Transformations)
        => /\ Len(text) <= Len(chars)
           /\ Len(text) < Len(chars)
                  => (fn = "half_width_katakana_to_full_width" /\ combos > 0)

\* C6 (amended): every transformation returns a text no longer than its input;
\* the output is strictly shorter exactly when
\* half_width_katakana_to_full_width has combined a base with a voicing mark,
\* or when normalize_whitespace is given a text that starts or ends with a
\* whitespace char or holds two adjacent whitespace chars; in every other case
\* the output length equals the input length.
C6_Length ==
    (pc = "idle" /\ fn \in Transformations)
        => /\ Len(text) <= Len(chars)
           /\ Len(text) < Len(chars)
                  <=> \/ fn = "half_width_katakana_to_full_width" /\ combos > 0
                      \/ fn = "normalize_whitespace" /\ DropsWhitespace(chars)

\* ｶ followed by the voiced-sound mark came back as the single glyph ガ
C6_Witness ==
    /\ pc = "idle"
    /\ fn = "half_width_katakana_to_full_width"
    /\ chars = <<\hFF76, \hFF9E>>
    /\ text = <<\h30AC>>

\* the pairs the claim names: ka / sa / ta / ha rows or ｳ with U+FF9E, ha row
\* with U+FF9F
KnownCombination(c, m) ==
    \/ /\ m = \hFF9E
       /\ \/ c \in \hFF76..\hFF7A
          \/ c \in \hFF7B..\hFF7F
          \/ c \in \hFF80..\hFF84
          \/ c \in \hFF8A..\hFF8E
          \/ c = \hFF73
    \/ /\ m = \hFF9F
       /\ c \in \hFF8A..\hFF8E

\* C7: in half_width_katakana_to_full_width the cursor never passes the end of
\* the input and the output holds one glyph per char consumed less one per
\* combination; an iteration advances the cursor by two and counts as a
\* combination exactly when the current and the next char are a known (base,
\* voicing mark) pair, and by one otherwise, and emits one glyph either way;
\* on return the cursor equals the input length and the output length is the
\* input length minus the number of combinations.
C7_CursorAdvance ==
    /\ [](fn = "half_width_katakana_to_full_width"
              => /\ i <= Len(chars)
                 /\ Len(result) = i - combos
                 /\ pc = "idle" => /\ i = Len(chars)
                                   /\ Len(text) = Len(chars) - combos)
    /\ [][(fn = "half_width_katakana_to_full_width" /\ pc = "scan" /\ pc' = "scan")
              => LET pair == /\ i + 1 < Len(chars)
                             /\ KnownCombination(chars[i + 1], chars[i + 2])
                 IN  /\ i' = i + (IF pair THEN 2 ELSE 1)
                     /\ combos' = combos + (IF pair THEN 1 ELSE 0)
                     /\ Len(result') = Len(result) + 1]_vars

\* ﾊ with the semi-voiced mark was combined into パ, the second mark emitted alone
C7_Witness ==
    /\ pc = "idle"
    /\ fn = "half_width_katakana_to_full_width"
    /\ chars = <<\hFF8A, \hFF9F, \hFF9F>>
    /\ text = <<\h30D1, \hFF9F>>
    /\ i = 3
    /\ combos = 1

UnvoicedMarks == {\h309D, \h30FD}

VoicedMarks == {\h309E, \h30FE}

\* C8: expand_iteration_marks returns a text as long as its input in which an
\* unvoiced mark (U+309D, U+30FD) at a position after the first is replaced by
\* the raw input char before it, whatever that char is, a mark at the first
\* position is kept, and every char that is not an iteration mark is kept.
C8_UnvoicedRepeat ==
    (pc = "idle" /\ fn = "expand_iteration_marks")
        => /\ Len(text) = Len(chars)
           /\ \A k \in 1..Len(chars) :
                  /\ (chars[k] \in UnvoicedMarks /\ k > 1) => text[k] = chars[k - 1]
                  /\ (chars[k] \in UnvoicedMarks \cup VoicedMarks /\ k = 1)
                         => text[k] = chars[k]
                  /\ chars[k] \notin UnvoicedMarks \cup VoicedMarks => text[k] = chars[k]

\* か ゝ ゝ: the first mark became か, the second became the raw mark before it
C8_Witness ==
    /\ pc = "idle"
    /\ fn = "expand_iteration_marks"
    /\ chars = <<\h304B, \h309D, \h309D>>
    /\ text = <<\h304B, \h304B, \h309D>>

\* the か / さ / た / は-row bases, hiragana, and the same rows of katakana (the
\* katakana block repeats the hiragana layout \h60 higher)
HiraganaVoicingBases ==
    {\h304B, \h304D, \h304F, \h3051, \h3053} \cup {\h3055, \h3057, \h3059, \h305B, \h305D}
    \cup {\h305F, \h3061, \h3064, \h3066, \h3068} \cup {\h306F, \h3072, \h3075, \h3078, \h307B}

VoicingBases == HiraganaVoicingBases \cup { c + \h60 : c \in HiraganaVoicingBases }

\* C9: expand_iteration_marks replaces a voiced mark (U+309E, U+30FE) at a
\* position after the first by the voiced form of the raw input char before it
\* when that char is a か / さ / た / は-row hiragana or katakana base (the voiced
\* form is the next code point), and by that char unchanged otherwise.
C9_VoicedRepeat ==
    (pc = "idle" /\ fn = "expand_iteration_marks")
        => \A k \in 2..Len(chars) :
               chars[k] \in VoicedMarks
                   => text[k] = IF chars[k - 1] \in VoicingBases
                                THEN chars[k - 1] + 1
                                ELSE chars[k - 1]

\* か ゞ came back as か が
C9_Witness ==
    /\ pc = "idle"
    /\ fn = "expand_iteration_marks"
    /\ chars = <<\h304B, \h309E>>
    /\ text = <<\h304B, \h304C>>

\* the maximal runs of non-whitespace chars of s, as <<first, last>> positions
Runs(s) ==
    { r \in (1..Len(s)) \X (1..Len(s)) :
        /\ r[1] <= r[2]
        /\ \A k \in r[1]..r[2] : ~is_whitespace(s[k])
        /\ r[1] = 1 \/ is_whitespace(s[r[1] - 1])
        /\ r[2] = Len(s) \/ is_whitespace(s[r[2] + 1]) }

\* the runs R of s, leftmost first, with one ASCII space between neighbours
RECURSIVE JoinRuns(_, _)
JoinRuns(s, R) ==
    IF R = {} THEN <<>>
    ELSE LET r == CHOOSE r \in R : \A q \in R : r[1] <= q[1]
             piece == SubSeq(s, r[1], r[2])
         IN  IF R = {r} THEN piece ELSE piece \o <<\h0020>> \o JoinRuns(s, R \ {r})

\* C10: normalize_whitespace returns the maximal runs of non-whitespace chars
\* of its input, in order, joined by one ASCII space: the output neither starts
\* nor ends with a space, holds no two adjacent spaces and no whitespace char
\* other than U+0020; applied again to its own output it returns that output.
C10_NormalizeWhitespace ==
    (pc = "idle" /\ fn = "normalize_whitespace")
        => /\ text = JoinRuns(chars, Runs(chars))
           /\ text # <<>> => (text[1] # \h0020 /\ text[Len(text)] # \h0020)
           /\ \A k \in 1..(Len(text) - 1) : ~(text[k] = \h0020 /\ text[k + 1] = \h0020)
           /\ \A k \in 1..Len(text) : is_whitespace(text[k]) => text[k] = \h0020
           /\ \A n \in 2..Len(outs) : outs[n] = outs[1]

\* tab, full-width space and runs of spaces were collapsed, and a second call
\* returned the same text
C10_Witness ==
    /\ pc = "idle"
    /\ calls = <<"normalize_whitespace", "normalize_whitespace">>
    /\ orig = <<\h3000, \h61, \h09>>
    /\ outs = <<<<\h61>>, <<\h61>>>>

\* the number of the first n chars of s that satisfy the test P
NumberOf(s, n, P(_)) == Cardinality({ k \in 1..n : P(s[k]) })

BelowHex80(c) == c < \h80

NoCategory(c) ==
    ~(\/ is_hiragana(c) \/ is_katakana(c) \/ is_half_width_katakana(c)
      \/ is_kanji(c) \/ BelowHex80(c) \/ is_full_width(c))

\* C11: throughout count_character_types every bucket equals the number of
\* chars scanned so far that satisfy that bucket's test taken on its own
\* (hiragana: is_hiragana, katakana: is_katakana, half_width_katakana:
\* is_half_width_katakana, kanji: is_kanji, ascii: below 0x80, full_width:
\* is_full_width, other: none of these), so on return each bucket counts the
\* chars of the whole input that satisfy its test.
C11_CountsMatchPredicates ==
    fn = "count_character_types"
        => /\ pc = "idle" => i = Len(chars)
           /\ counts.hiragana = NumberOf(chars, i, is_hiragana)
           /\ counts.katakana = NumberOf(chars, i, is_katakana)
           /\ counts.half_width_katakana = NumberOf(chars, i, is_half_width_katakana)
           /\ counts.kanji = NumberOf(chars, i, is_kanji)
           /\ counts.ascii = NumberOf(chars, i, BelowHex80)
           /\ counts.full_width = NumberOf(chars, i, is_full_width)
           /\ counts.other = NumberOf(chars, i, NoCategory)

\* Ａ, the full-width space and 。 were counted: two full-width, one other
C11_Witness ==
    /\ pc = "idle"
    /\ fn = "count_character_types"
    /\ chars = <<\hFF21, \h3000, \h3002>>
    /\ counts = [hiragana |-> 0, katakana |-> 0, half_width_katakana |-> 0, kanji |-> 0,
                 ascii |-> 0, full_width |-> 2, other |-> 1]

HalfWidthBlock == \hFF61..\hFF9F

HalfWidthMarks == {\hFF9E, \hFF9F}

\* C12: the output of half_width_katakana_to_full_width holds no char of the
\* half-width katakana block U+FF61..U+FF9F other than the voicing marks
\* U+FF9E and U+FF9F; an iteration that emits such a mark emits the input mark
\* under the cursor, consumed alone, and that mark stands at position 0 or
\* after a char that forms no known combination with it (a mark consumed by an
\* earlier combination included); an iteration whose current char is any other
\* char of the block emits a char outside the block.
C12_HalfWidthBlockLeaves ==
    /\ [](fn = "half_width_katakana_to_full_width"
              => /\ \A k \in 1..Len(result) :
                        result[k] \in HalfWidthBlock => result[k] \in HalfWidthMarks
                 /\ pc = "idle" => text = result)
    /\ [][(fn = "half_width_katakana_to_full_width" /\ pc = "scan" /\ pc' = "scan")
              => LET c == chars[i + 1]
                     out == result'[Len(result')]
                 IN  /\ out \in HalfWidthBlock
                            => /\ c \in HalfWidthMarks
                               /\ out = c
                               /\ i' = i + 1
                               /\ i = 0 \/ ~KnownCombination(chars[i], c)
                     /\ c \in HalfWidthBlock \ HalfWidthMarks
                            => out \notin HalfWidthBlock]_vars

\* a mark at position 0 and a mark after ｱ, which takes no mark, both came out
C12_Witness ==
    /\ pc = "idle"
    /\ fn = "half_width_katakana_to_full_width"
    /\ chars = <<\hFF9E, \hFF71, \hFF9F>>
    /\ text = <<\hFF9E, \h30A2, \hFF9F>>

====
